---------------------------- MODULE Spec2Model ----------------------------
(***************************************************************************)
(* Model of the authentication/session state machine (AuthService) and of  *)
(* the route guards (auth.guard.ts, role.guard.ts) that read it.           *)
(*                                                                         *)
(* The identity provider (Firebase Auth) and the document store            *)
(* (Firestore) are the environment: every call to them takes effect at its *)
(* own step and may fail, and the provider's session-change callbacks are  *)
(* delivered in order, asynchronously with respect to the promise of the   *)
(* call that caused them.  The code after each `await` is a separate step, *)
(* so reconciliations and imperative operations interleave as the event    *)
(* loop allows.                                                            *)
(***************************************************************************)
EXTENDS Naturals, Sequences, FiniteSets, TLC

(***************************************************************************)
(* Bounds of the model.                                                    *)
(***************************************************************************)
MaxPending == 1   \* provider events queued and not yet delivered
MaxRecs    == 1   \* listener callbacks (reconciliations) in flight
MaxOps     == 1   \* imperative operations in flight
MaxPolls   == 1   \* guards suspended on their polling interval

(***************************************************************************)
(* Values.                                                                 *)
(***************************************************************************)
Uids  == {"u1", "u2"}
NoUid == "none"                       \* null FirebaseUser / undefined uid
Null  == [uid |-> NoUid]              \* null User (currentUser() === null)

UserRole == {"admin", "user", "moderator", "guest"}
Permission == {"read", "write", "delete"}
Absent == {"<absent>"}                \* a field the stored document lacks

NoDoc == [exists |-> FALSE]

\* Display names: the one passed to register, the one the provider holds for an
\* OAuth account, and none.
NoName == "<none>"
RegName == "Reg"

DefaultRoles == {"user"}
DefaultPermissions == {"read"}
DefaultDisplayName == "User"

\* Role and permission lists an administrator may write.
RoleInputs == {{"admin", "user"}, {"moderator"}}
PermInputs == {{"read", "write", "delete"}, {"delete"}}

\* Requested URLs of guarded navigations.
Urls == {"/dashboard", "/admin"}
NoParam == "<none>"

VARIABLES
  currentUser,    \* signal<User | null>
  firebaseUser,   \* signal<FirebaseUser | null>, by uid
  loading,        \* signal<boolean>
  authError,      \* signal<string | null>
  attached,       \* the onAuthStateChanged listener is subscribed
  authUser,       \* provider: auth.currentUser, by uid
  accounts,       \* provider: identities that exist
  provName,       \* provider: displayName of each identity's user object
  events,         \* provider: session-change callbacks not yet delivered
  users,          \* store: the 'users' collection, uid -> document
  recs,           \* listener callbacks in flight
  ops,            \* imperative operations in flight
  polls,          \* guards waiting on setInterval
  out             \* what the last step returned to its caller (transient)

vars == <<currentUser, firebaseUser, loading, authError, attached, authUser,
          accounts, provName, events, users, recs, ops, polls, out>>

session == <<currentUser, firebaseUser, loading, authError>>
provider == <<authUser, accounts, provName, events>>

NoErr == "<null>"
NoOut == [type |-> "none"]

(***************************************************************************)
(* Sequence helpers.                                                       *)
(***************************************************************************)
RemoveAt(s, i) == [j \in 1..(Len(s) - 1) |-> IF j < i THEN s[j] ELSE s[j + 1]]
ReplaceAt(s, i, v) == [s EXCEPT ![i] = v]

(***************************************************************************)
(* Derived queries (computed signals) and role/permission checks.          *)
(***************************************************************************)
isAuthenticated == currentUser # Null /\ firebaseUser # NoUid
userRoles == IF currentUser = Null THEN {} ELSE currentUser.roles
userPermissions == IF currentUser = Null THEN {} ELSE currentUser.permissions
isLoading == loading

\* Provider-side verified flag of each identity (carried by the FirebaseUser).
EmailVerifiedOf(u) == u = "u1"
isEmailVerified == IF firebaseUser = NoUid THEN FALSE ELSE EmailVerifiedOf(firebaseUser)

hasRoleMut(role) == role \in userRoles \/ (role = "moderator" /\ "admin" \in userRoles)
hasRole(role) == role \in userRoles
hasAnyRoleMut(roles) == \A i \in 1..Len(roles) : hasRole(roles[i])
hasAnyRole(roles) == \E i \in 1..Len(roles) : hasRole(roles[i])
hasAllRoles(roles) == \A i \in 1..Len(roles) : hasRole(roles[i])
hasPermission(permission) == permission \in userPermissions
hasAnyPermissionMut(permissions) == \A i \in 1..Len(permissions) : hasPermission(permissions[i])
hasAnyPermission(permissions) == \E i \in 1..Len(permissions) : hasPermission(permissions[i])

(***************************************************************************)
(* The FirebaseUser of an identity: email and photoURL may be null.        *)
(***************************************************************************)
NoEmail == "<null>"
NoPhoto == "<null>"
EmailOf(uid) == uid \o "@example.com"
PhotoOf(uid) == IF uid = "u2" THEN "https://photo/u2" ELSE NoPhoto

\* firebaseUser.email ?? ''
OrEmptyString(email) == IF email = NoEmail THEN "" ELSE email

(***************************************************************************)
(* Profile store adapter.                                                  *)
(***************************************************************************)
Coalesce(v, d) == IF v = Absent THEN d ELSE v

\* getUserProfile: the User built from the document read, or Null.
getUserProfile(uid, emailVerified) ==
  IF users[uid].exists
  THEN [uid |-> uid,
        email |-> users[uid].email,
        emailVerified |-> emailVerified,
        displayName |-> users[uid].displayName,
        photoURL |-> users[uid].photoURL,
        roles |-> Coalesce(users[uid].roles, DefaultRoles),
        permissions |-> Coalesce(users[uid].permissions, DefaultPermissions)]
  ELSE Null

\* createUserProfile, first half: the UserProfile document it builds.
NewUserProfileMut(uid, displayName) ==
  [exists |-> TRUE,
   email |-> OrEmptyString(EmailOf(uid)),
   displayName |-> IF displayName # NoName THEN displayName
                   ELSE IF provName[uid] # NoName THEN provName[uid]
                   ELSE DefaultDisplayName,
   photoURL |-> PhotoOf(uid),
   roles |-> {},
   permissions |-> DefaultPermissions]
NewUserProfile(uid, displayName) ==
  [exists |-> TRUE,
   email |-> OrEmptyString(EmailOf(uid)),
   displayName |-> IF displayName # NoName THEN displayName
                   ELSE IF provName[uid] # NoName THEN provName[uid]
                   ELSE DefaultDisplayName,
   photoURL |-> PhotoOf(uid),
   roles |-> DefaultRoles,
   permissions |-> DefaultPermissions]

\* createUserProfile, second half: the User it returns once setDoc resolved.
CreatedUserMut(uid, profileDoc) ==
  [uid |-> uid,
   email |-> profileDoc.email,
   emailVerified |-> EmailVerifiedOf(uid),
   displayName |-> provName[uid],
   photoURL |-> profileDoc.photoURL,
   roles |-> profileDoc.roles,
   permissions |-> profileDoc.permissions]
CreatedUser(uid, profileDoc) ==
  [uid |-> uid,
   email |-> profileDoc.email,
   emailVerified |-> EmailVerifiedOf(uid),
   displayName |-> profileDoc.displayName,
   photoURL |-> profileDoc.photoURL,
   roles |-> profileDoc.roles,
   permissions |-> profileDoc.permissions]

(***************************************************************************)
(* Error classification (handleAuthError).                                 *)
(***************************************************************************)
GenericMessage == "An error occurred. Please try again."

Err(code, message) == [code |-> code, message |-> message]

ClassifyMut(error) ==
  CASE error.code = "auth/user-not-found" -> "No account found with this email address."
    [] error.code = "auth/wrong-password" -> "Incorrect password. Please try again."
    [] error.code = "auth/invalid-credential" -> "Invalid email or password. Please try again."
    [] error.code = "auth/email-already-in-use" -> "An account with this email already exists."
    [] error.code = "auth/weak-password" -> "Password should be at least 6 characters."
    [] error.code = "auth/invalid-email" -> "Please enter a valid email address."
    [] error.code = "auth/too-many-requests" -> "Too many failed attempts. Please try again later."
    [] error.code = "auth/popup-closed-by-user" -> "Sign-in popup was closed. Please try again."
    [] OTHER -> error.message
Classify(error) ==
  CASE error.code = "auth/user-not-found" -> "No account found with this email address."
    [] error.code = "auth/wrong-password" -> "Incorrect password. Please try again."
    [] error.code = "auth/invalid-credential" -> "Invalid email or password. Please try again."
    [] error.code = "auth/email-already-in-use" -> "An account with this email already exists."
    [] error.code = "auth/weak-password" -> "Password should be at least 6 characters."
    [] error.code = "auth/invalid-email" -> "Please enter a valid email address."
    [] error.code = "auth/too-many-requests" -> "Too many failed attempts. Please try again later."
    [] error.code = "auth/popup-closed-by-user" -> "Sign-in popup was closed. Please try again."
    [] OTHER -> IF error.message # "" THEN error.message ELSE GenericMessage

\* Errors the environment raises.
StoreErrors == {Err("permission-denied", "Missing or insufficient permissions.")}
NetworkErrors == {Err("auth/network-request-failed", "")}

\* The codes handleAuthError knows, and errors of every kind a rejected call
\* can carry: each known code, an unknown code with a message, and an unknown
\* code without one.
KnownCodes ==
  {"auth/user-not-found", "auth/wrong-password", "auth/invalid-credential",
   "auth/email-already-in-use", "auth/weak-password", "auth/invalid-email",
   "auth/too-many-requests", "auth/popup-closed-by-user"}
RawMessage == "Firebase: Error."
AnyErrors ==
  {Err(code, RawMessage) : code \in KnownCodes}
    \cup {Err("auth/internal-error", RawMessage), Err("unavailable", "")}

(***************************************************************************)
(* Initial state: AuthService just constructed, listener attached; the     *)
(* provider will call back once with the persisted session (or null).      *)
(***************************************************************************)
StoredDoc(uid, name, roles, permissions) ==
  [exists |-> TRUE, email |-> EmailOf(uid), displayName |-> name,
   photoURL |-> PhotoOf(uid), roles |-> roles, permissions |-> permissions]

InitDocs == {StoredDoc("u1", RegName, DefaultRoles, DefaultPermissions),
             StoredDoc("u1", RegName, Absent, Absent),
             NoDoc}

Init ==
  /\ currentUser = Null
  /\ firebaseUser = NoUid
  /\ loading = TRUE
  /\ authError = NoErr
  /\ attached = TRUE
  /\ authUser \in {NoUid, "u1"}
  /\ accounts = {"u1"}
  /\ provName = [u \in Uids |-> NoName]
  /\ events = <<authUser>>
  /\ \E d \in InitDocs : users = [u \in Uids |-> IF u = "u1" THEN d ELSE NoDoc]
  /\ recs = <<>>
  /\ ops = <<>>
  /\ polls = {}
  /\ out = NoOut

(***************************************************************************)
(* Provider: a change of auth.currentUser notifies the attached listener.  *)
(* A sign-in of the identity already signed in is no change and notifies   *)
(* nobody.  The callback itself runs later, at ListenerCall.               *)
(***************************************************************************)
Notified(u) == IF attached /\ u # authUser THEN Append(events, u) ELSE events
CanNotify(u) == (attached /\ u # authUser) => Len(events) < MaxPending

(***************************************************************************)
(* The onAuthStateChanged listener (constructor).                          *)
(***************************************************************************)
Rec(uid, pc, prof) == [uid |-> uid, pc |-> pc, prof |-> prof]

\* The callback is entered: firebaseUser.set(firebaseUser); a null event is
\* handled to the end synchronously.
ListenerCall ==
  /\ attached
  /\ events # <<>>
  /\ LET e == Head(events) IN
       /\ firebaseUser' = e
       /\ events' = Tail(events)
       /\ IF e = NoUid
          THEN /\ currentUser' = Null
               /\ loading' = FALSE
               /\ recs' = recs
          ELSE /\ Len(recs) < MaxRecs
               /\ recs' = Append(recs, Rec(e, "fetch", Null))
               /\ UNCHANGED <<currentUser, loading>>
  /\ out' = NoOut
  /\ UNCHANGED <<authError, attached, authUser, accounts, provName, users, ops, polls>>

\* catch (error) { currentUser.set(null) } ; loading.set(false)
ListenerCatchMut(i) ==
  /\ loading' = FALSE
  /\ recs' = RemoveAt(recs, i)
  /\ out' = NoOut
  /\ UNCHANGED <<currentUser, firebaseUser, authError, attached, provider, users, ops, polls>>
ListenerCatch(i) ==
  /\ currentUser' = Null
  /\ loading' = FALSE
  /\ recs' = RemoveAt(recs, i)
  /\ out' = NoOut
  /\ UNCHANGED <<firebaseUser, authError, attached, provider, users, ops, polls>>

\* await getUserProfile(uid, emailVerified): the document is read.
ListenerFetchMut(i) ==
  /\ recs[i].pc = "fetch"
  /\ LET uid == recs[i].uid
         userProfile == getUserProfile(uid, FALSE)
     IN  /\ recs' = ReplaceAt(recs, i,
                      IF userProfile # Null
                      THEN Rec(uid, "adopt", userProfile)
                      ELSE Rec(uid, "create", NewUserProfile(uid, NoName)))
  /\ out' = NoOut
  /\ UNCHANGED <<session, attached, provider, users, ops, polls>>
ListenerFetch(i) ==
  /\ recs[i].pc = "fetch"
  /\ LET uid == recs[i].uid
         userProfile == getUserProfile(uid, EmailVerifiedOf(uid))
     IN  /\ recs' = ReplaceAt(recs, i,
                      IF userProfile # Null
                      THEN Rec(uid, "adopt", userProfile)
                      ELSE Rec(uid, "create", NewUserProfile(uid, NoName)))
  /\ out' = NoOut
  /\ UNCHANGED <<session, attached, provider, users, ops, polls>>

ListenerFetchFails(i) ==
  /\ recs[i].pc = "fetch"
  /\ ListenerCatch(i)

\* createUserProfile: await setDoc(userRef, userProfile).
ListenerCreate(i) ==
  /\ recs[i].pc = "create"
  /\ users' = [users EXCEPT ![recs[i].uid] = recs[i].prof]
  /\ recs' = ReplaceAt(recs, i,
               Rec(recs[i].uid, "adopt", CreatedUser(recs[i].uid, recs[i].prof)))
  /\ out' = NoOut
  /\ UNCHANGED <<session, attached, provider, ops, polls>>

ListenerCreateFails(i) ==
  /\ recs[i].pc = "create"
  /\ ListenerCatch(i)

\* currentUser.set(userProfile | newProfile); loading.set(false)
ListenerAdopt(i) ==
  /\ recs[i].pc = "adopt"
  /\ currentUser' = recs[i].prof
  /\ loading' = FALSE
  /\ recs' = RemoveAt(recs, i)
  /\ out' = NoOut
  /\ UNCHANGED <<firebaseUser, authError, attached, provider, users, ops, polls>>

Listener ==
  \/ ListenerCall
  \/ \E i \in 1..Len(recs) :
       \/ ListenerFetch(i)
       \/ ListenerFetchFails(i)
       \/ ListenerCreate(i)
       \/ ListenerCreateFails(i)
       \/ ListenerAdopt(i)

\* ngOnDestroy: unsubscribeAuth(); callbacks not yet delivered are dropped.
ngOnDestroyMut ==
  /\ out' = NoOut
  /\ UNCHANGED <<session, attached, provider, users, recs, ops, polls>>
ngOnDestroy ==
  /\ attached' = FALSE
  /\ events' = <<>>
  /\ out' = NoOut
  /\ UNCHANGED <<session, authUser, accounts, provName, users, recs, ops, polls>>

(***************************************************************************)
(* Imperative operations.  Each is an Observable/Promise chain: the call   *)
(* itself runs synchronously, every provider or store call is one step,    *)
(* and the chain's last step delivers the result to the subscriber.        *)
(***************************************************************************)
Op(kind, uid, name, set, pc, prof) ==
  [kind |-> kind, uid |-> uid, name |-> name, set |-> set, pc |-> pc, prof |-> prof]

AtPc(pc, op) == [op EXCEPT !.pc = pc]
Settled(kind, uid, ok, error) ==
  [type |-> "op", kind |-> kind, uid |-> uid, ok |-> ok, error |-> error]

CanStart == Len(ops) < MaxOps

\* Errors of the provider's sign-in and sign-up calls.
SignInErrors(kind, uid) ==
  IF kind = "loginWithGoogle" THEN {Err("auth/popup-closed-by-user", "popup")}
  ELSE IF uid \in accounts THEN {Err("auth/wrong-password", "wrong")}
  ELSE {Err("auth/user-not-found", "none")}
SignUpErrors(uid) ==
  IF uid \in accounts THEN {Err("auth/email-already-in-use", "in use")}
  ELSE {Err("auth/weak-password", "weak")}

\* handleAuthError: loading.set(false); authError.set(message); throwError.
handleAuthErrorMut(i, error) ==
  /\ loading' = FALSE
  /\ authError' = Classify(error)
  /\ currentUser' = Null
  /\ ops' = RemoveAt(ops, i)
  /\ out' = Settled(ops[i].kind, ops[i].uid, FALSE, Classify(error))
  /\ UNCHANGED <<firebaseUser, attached, provider, users, recs, polls>>
handleAuthError(i, error) ==
  /\ loading' = FALSE
  /\ authError' = Classify(error)
  /\ ops' = RemoveAt(ops, i)
  /\ out' = Settled(ops[i].kind, ops[i].uid, FALSE, Classify(error))
  /\ UNCHANGED <<currentUser, firebaseUser, attached, provider, users, recs, polls>>

\* login(email, password) / loginWithGoogle(): the synchronous part.
loginCall(kind, uid) ==
  /\ CanStart
  /\ loading' = TRUE
  /\ authError' = NoErr
  /\ ops' = Append(ops, Op(kind, uid, NoName, {}, "signin", Null))
  /\ out' = NoOut
  /\ UNCHANGED <<currentUser, firebaseUser, attached, provider, users, recs, polls>>

login(uid) == loginCall("login", uid)
loginWithGoogle(uid) == loginCall("loginWithGoogle", uid)

\* signInWithEmailAndPassword / signInWithPopup resolves with a credential.
GoogleName == "Goo"
SignIn(i) ==
  /\ ops[i].pc = "signin"
  /\ LET uid == ops[i].uid IN
       /\ ops[i].kind = "login" => uid \in accounts
       /\ CanNotify(uid)
       /\ authUser' = uid
       /\ events' = Notified(uid)
       /\ accounts' = accounts \cup {uid}
       /\ provName' = IF uid \in accounts THEN provName
                      ELSE [provName EXCEPT ![uid] = GoogleName]
  /\ ops' = ReplaceAt(ops, i, AtPc("fetch", ops[i]))
  /\ out' = NoOut
  /\ UNCHANGED <<session, attached, users, recs, polls>>

SignInFails(i) ==
  /\ ops[i].pc = "signin"
  /\ \E error \in SignInErrors(ops[i].kind, ops[i].uid) : handleAuthError(i, error)

\* handleAuthSuccess: await getUserProfile(...), then the branch taken.
handleAuthSuccessFetch(i) ==
  /\ ops[i].pc = "fetch"
  /\ LET uid == ops[i].uid
         userProfile == getUserProfile(uid, EmailVerifiedOf(uid))
     IN  ops' = ReplaceAt(ops, i,
                  IF userProfile = Null
                  THEN [ops[i] EXCEPT !.pc = "create", !.prof = NewUserProfile(uid, NoName)]
                  ELSE [ops[i] EXCEPT !.pc = "update", !.prof = userProfile])
  /\ out' = NoOut
  /\ UNCHANGED <<session, attached, provider, users, recs, polls>>

\* createUserProfile: await setDoc(userRef, userProfile) (no merge: overwrites).
createUserProfileWrite(i) ==
  /\ ops[i].pc = "create"
  /\ users' = [users EXCEPT ![ops[i].uid] = ops[i].prof]
  /\ ops' = ReplaceAt(ops, i,
              [ops[i] EXCEPT !.pc = "finish", !.prof = CreatedUser(ops[i].uid, ops[i].prof)])
  /\ out' = NoOut
  /\ UNCHANGED <<session, attached, provider, recs, polls>>

\* handleAuthSuccess: await updateDoc(userRef, {lastLoginAt, updatedAt}).
handleAuthSuccessUpdate(i) ==
  /\ ops[i].pc = "update"
  /\ users[ops[i].uid].exists
  /\ ops' = ReplaceAt(ops, i, AtPc("finish", ops[i]))
  /\ out' = NoOut
  /\ UNCHANGED <<session, attached, provider, users, recs, polls>>

\* Any awaited call of login / loginWithGoogle rejects, with any error.
OpRejects(i) ==
  /\ ops[i].kind \in {"login", "loginWithGoogle"}
  /\ ops[i].pc \in {"signin", "fetch", "create", "update"}
  /\ \E error \in AnyErrors : handleAuthError(i, error)

\* A store call of the chain rejects.
StoreFails(i) ==
  /\ ops[i].kind \in {"login", "loginWithGoogle", "register"}
  /\ ops[i].pc \in {"fetch", "create", "update"}
  /\ \E error \in StoreErrors : handleAuthError(i, error)

\* currentUser.set(userProfile); tap(() => loading.set(false)); next(userProfile).
AuthFinish(i) ==
  /\ ops[i].kind \in {"login", "loginWithGoogle", "register"}
  /\ ops[i].pc = "finish"
  /\ currentUser' = ops[i].prof
  /\ loading' = FALSE
  /\ ops' = RemoveAt(ops, i)
  /\ out' = Settled(ops[i].kind, ops[i].uid, TRUE, NoErr)
  /\ UNCHANGED <<firebaseUser, authError, attached, provider, users, recs, polls>>

\* register(email, password, displayName): the synchronous part.
register(uid, displayName) ==
  /\ CanStart
  /\ loading' = TRUE
  /\ authError' = NoErr
  /\ ops' = Append(ops, Op("register", uid, displayName, {}, "signup", Null))
  /\ out' = NoOut
  /\ UNCHANGED <<currentUser, firebaseUser, attached, provider, users, recs, polls>>

\* createUserWithEmailAndPassword resolves: the identity exists and is signed in.
SignUp(i) ==
  /\ ops[i].pc = "signup"
  /\ LET uid == ops[i].uid IN
       /\ uid \notin accounts
       /\ CanNotify(uid)
       /\ accounts' = accounts \cup {uid}
       /\ authUser' = uid
       /\ events' = Notified(uid)
  /\ ops' = ReplaceAt(ops, i, AtPc("updateProfile", ops[i]))
  /\ out' = NoOut
  /\ UNCHANGED <<session, attached, provName, users, recs, polls>>

SignUpFails(i) ==
  /\ ops[i].pc = "signup"
  /\ \E error \in SignUpErrors(ops[i].uid) : handleAuthError(i, error)

\* await updateProfile(credential.user, { displayName })
UpdateProfile(i) ==
  /\ ops[i].pc = "updateProfile"
  /\ provName' = [provName EXCEPT ![ops[i].uid] = ops[i].name]
  /\ ops' = ReplaceAt(ops, i, AtPc("verify", ops[i]))
  /\ out' = NoOut
  /\ UNCHANGED <<session, attached, authUser, accounts, events, users, recs, polls>>

\* await sendEmailVerification(credential.user), then createUserProfile is entered.
SendVerification(i) ==
  /\ ops[i].pc = "verify"
  /\ ops' = ReplaceAt(ops, i,
              [ops[i] EXCEPT !.pc = "create",
                             !.prof = NewUserProfile(ops[i].uid, ops[i].name)])
  /\ out' = NoOut
  /\ UNCHANGED <<session, attached, provider, users, recs, polls>>

\* updateProfile or sendEmailVerification rejects inside the switchMap.
RegisterStepFails(i) ==
  /\ ops[i].pc \in {"updateProfile", "verify"}
  /\ \E error \in NetworkErrors : handleAuthError(i, error)

\* logout(): signOut(this.auth) is requested; no signal is written yet.
logoutMut ==
  /\ CanStart
  /\ loading' = TRUE
  /\ ops' = Append(ops, Op("logout", firebaseUser, NoName, {}, "signout", Null))
  /\ out' = NoOut
  /\ UNCHANGED <<currentUser, firebaseUser, authError, attached, provider, users, recs, polls>>
logout ==
  /\ CanStart
  /\ ops' = Append(ops, Op("logout", firebaseUser, NoName, {}, "signout", Null))
  /\ out' = NoOut
  /\ UNCHANGED <<session, attached, provider, users, recs, polls>>

\* signOut resolves: the provider session is gone.
SignOut(i) ==
  /\ ops[i].pc = "signout"
  /\ CanNotify(NoUid)
  /\ authUser' = NoUid
  /\ events' = Notified(NoUid)
  /\ ops' = ReplaceAt(ops, i, AtPc("finish", ops[i]))
  /\ out' = NoOut
  /\ UNCHANGED <<session, attached, accounts, provName, users, recs, polls>>

\* tap: currentUser.set(null); firebaseUser.set(null); router.navigate(['/login']).
logoutTap(i) ==
  /\ ops[i].kind = "logout"
  /\ ops[i].pc = "finish"
  /\ currentUser' = Null
  /\ firebaseUser' = NoUid
  /\ ops' = RemoveAt(ops, i)
  /\ out' = Settled("logout", ops[i].uid, TRUE, NoErr)
  /\ UNCHANGED <<loading, authError, attached, provider, users, recs, polls>>

\* signOut rejects: the tap is skipped, catchError logs and completes with of(void 0).
logoutCatch(i) ==
  /\ ops[i].pc = "signout"
  /\ ops' = RemoveAt(ops, i)
  /\ out' = Settled("logout", ops[i].uid, TRUE, NoErr)
  /\ UNCHANGED <<session, attached, provider, users, recs, polls>>

\* resetPassword(email): the synchronous part.
resetPasswordMut(uid) ==
  /\ CanStart
  /\ loading' = TRUE
  /\ authError' = NoErr
  /\ currentUser' = Null
  /\ ops' = Append(ops, Op("resetPassword", uid, NoName, {}, "reset", Null))
  /\ out' = NoOut
  /\ UNCHANGED <<firebaseUser, attached, provider, users, recs, polls>>
resetPassword(uid) ==
  /\ CanStart
  /\ loading' = TRUE
  /\ authError' = NoErr
  /\ ops' = Append(ops, Op("resetPassword", uid, NoName, {}, "reset", Null))
  /\ out' = NoOut
  /\ UNCHANGED <<currentUser, firebaseUser, attached, provider, users, recs, polls>>

\* sendPasswordResetEmail resolves: tap(() => loading.set(false)).
resetPasswordTapMut(i) ==
  /\ ops[i].pc = "reset"
  /\ ops' = RemoveAt(ops, i)
  /\ out' = Settled("resetPassword", ops[i].uid, TRUE, NoErr)
  /\ UNCHANGED <<session, attached, provider, users, recs, polls>>
resetPasswordTap(i) ==
  /\ ops[i].pc = "reset"
  /\ loading' = FALSE
  /\ ops' = RemoveAt(ops, i)
  /\ out' = Settled("resetPassword", ops[i].uid, TRUE, NoErr)
  /\ UNCHANGED <<currentUser, firebaseUser, authError, attached, provider, users, recs, polls>>

\* resendVerificationEmail(): throws at once when no FirebaseUser is attached.
NoUserMessage == "No user logged in"
resendVerificationEmailMut ==
  /\ CanStart
  /\ ops' = Append(ops, Op("resendVerificationEmail", firebaseUser, NoName, {}, "resend", Null))
  /\ out' = NoOut
  /\ UNCHANGED <<session, attached, provider, users, recs, polls>>
resendVerificationEmail ==
  IF firebaseUser = NoUid
  THEN /\ out' = Settled("resendVerificationEmail", NoUid, FALSE, NoUserMessage)
       /\ UNCHANGED <<session, attached, provider, users, recs, ops, polls>>
  ELSE /\ CanStart
       /\ ops' = Append(ops, Op("resendVerificationEmail", firebaseUser, NoName, {}, "resend", Null))
       /\ out' = NoOut
       /\ UNCHANGED <<session, attached, provider, users, recs, polls>>

resendDone(i) ==
  /\ ops[i].pc = "resend"
  /\ ops' = RemoveAt(ops, i)
  /\ out' = Settled("resendVerificationEmail", ops[i].uid, TRUE, NoErr)
  /\ UNCHANGED <<session, attached, provider, users, recs, polls>>

\* sendPasswordResetEmail or sendEmailVerification rejects.
MailFails(i) ==
  /\ ops[i].pc \in {"reset", "resend"}
  /\ \E error \in NetworkErrors : handleAuthError(i, error)

\* updateUserRoles(uid, roles) / updateUserPermissions(uid, permissions): called.
updateUserRoles(uid, roles) ==
  /\ CanStart
  /\ ops' = Append(ops, Op("updateUserRoles", uid, NoName, roles, "write", Null))
  /\ out' = NoOut
  /\ UNCHANGED <<session, attached, provider, users, recs, polls>>

updateUserPermissions(uid, permissions) ==
  /\ CanStart
  /\ ops' = Append(ops, Op("updateUserPermissions", uid, NoName, permissions, "write", Null))
  /\ out' = NoOut
  /\ UNCHANGED <<session, attached, provider, users, recs, polls>>

\* await updateDoc(userRef, { roles | permissions, updatedAt }): needs the document.
updateDocWrite(i) ==
  /\ ops[i].pc = "write"
  /\ users[ops[i].uid].exists
  /\ users' = [users EXCEPT ![ops[i].uid] =
                 IF ops[i].kind = "updateUserRoles"
                 THEN [@ EXCEPT !.roles = ops[i].set]
                 ELSE [@ EXCEPT !.permissions = ops[i].set]]
  /\ ops' = ReplaceAt(ops, i, AtPc("patch", ops[i]))
  /\ out' = NoOut
  /\ UNCHANGED <<session, attached, provider, recs, polls>>

\* updateDoc rejects (no such document, or a store error): the promise rejects.
updateDocFailsMut(i) ==
  /\ ops[i].pc = "write"
  /\ \E error \in StoreErrors : handleAuthError(i, error)
updateDocFails(i) ==
  /\ ops[i].pc = "write"
  /\ \E error \in StoreErrors :
       out' = Settled(ops[i].kind, ops[i].uid, FALSE, error.message)
  /\ ops' = RemoveAt(ops, i)
  /\ UNCHANGED <<session, attached, provider, users, recs, polls>>

\* if (currentUser()?.uid === uid) currentUser.update(user => ({...user, roles}))
updatePatchMut(i) ==
  /\ ops[i].pc = "patch"
  /\ currentUser' =
       IF currentUser.uid = ops[i].uid
       THEN IF ops[i].kind = "updateUserRoles"
            THEN [currentUser EXCEPT !.roles = (@ \cup ops[i].set) \ (@ \cap ops[i].set)]
            ELSE [currentUser EXCEPT !.permissions = (@ \cup ops[i].set) \ (@ \cap ops[i].set)]
       ELSE currentUser
  /\ ops' = RemoveAt(ops, i)
  /\ out' = Settled(ops[i].kind, ops[i].uid, TRUE, NoErr)
  /\ UNCHANGED <<firebaseUser, loading, authError, attached, provider, users, recs, polls>>
updatePatch(i) ==
  /\ ops[i].pc = "patch"
  /\ currentUser' =
       IF currentUser.uid = ops[i].uid
       THEN IF ops[i].kind = "updateUserRoles"
            THEN [currentUser EXCEPT !.roles = ops[i].set]
            ELSE [currentUser EXCEPT !.permissions = ops[i].set]
       ELSE currentUser
  /\ ops' = RemoveAt(ops, i)
  /\ out' = Settled(ops[i].kind, ops[i].uid, TRUE, NoErr)
  /\ UNCHANGED <<firebaseUser, loading, authError, attached, provider, users, recs, polls>>

\* The application is reloaded: a new AuthService is constructed (signals at
\* their initial values, nothing in flight) and the provider calls its
\* listener back with the session it persisted; the store is what it was.
restart ==
  /\ currentUser' = Null
  /\ firebaseUser' = NoUid
  /\ loading' = TRUE
  /\ authError' = NoErr
  /\ attached' = TRUE
  /\ events' = <<authUser>>
  /\ recs' = <<>>
  /\ ops' = <<>>
  /\ polls' = {}
  /\ out' = NoOut
  /\ UNCHANGED <<authUser, accounts, provName, users>>

(***************************************************************************)
(* Route guards (auth.guard.ts, role.guard.ts).  A decision is `true` or   *)
(* the UrlTree of a redirect.                                              *)
(***************************************************************************)
Allow == [allow |-> TRUE, path |-> NoParam, returnUrl |-> NoParam]
Deny(path, returnUrl) == [allow |-> FALSE, path |-> path, returnUrl |-> returnUrl]

Decided(guard, url, data, polled, result) ==
  [type |-> "guard", guard |-> guard, url |-> url, data |-> data,
   polled |-> polled, result |-> result]

\* Route data: { roles?, permissions?, requireAll? }.
NoList == <<"<absent>">>
OrEmpty(list) == IF list = NoList THEN <<>> ELSE list
RequireAllValues == {"absent", "true", "false"}
OrFalse(requireAll) == requireAll = "true"
RouteData(roles, permissions, requireAll) ==
  [roles |-> roles, permissions |-> permissions, requireAll |-> requireAll]
NoData == RouteData(NoList, NoList, "absent")

RoleLists == {NoList, <<>>, <<"admin">>, <<"admin", "moderator">>, <<"user", "admin">>}
PermLists == {NoList, <<>>, <<"write">>, <<"read", "write">>}
RoleDatas ==
  {RouteData(r, NoList, ra) : r \in RoleLists, ra \in RequireAllValues}
    \cup {RouteData(<<"admin">>, <<"write">>, "true"), RouteData(NoList, <<"write">>, "true")}
PermDatas ==
  {RouteData(NoList, p, ra) : p \in PermLists, ra \in RequireAllValues}
    \cup {RouteData(<<"admin">>, <<"write">>, "true"), RouteData(<<"admin">>, NoList, "true")}

\* authGuard, lines 35-45: the decision taken at once.
authGuardNowMut(url) == IF isAuthenticated THEN Allow ELSE Deny("/login", NoParam)
authGuardNow(url) == IF isAuthenticated THEN Allow ELSE Deny("/login", url)

\* authGuard, lines 23-29: the decision taken in the interval callback.
authGuardPolled(url) == IF isAuthenticated THEN Allow ELSE Deny("/login", url)

\* noAuthGuard, lines 99-104 and lines 89-93.
noAuthGuardNowMut == IF isAuthenticated THEN Allow ELSE Deny("/dashboard", NoParam)
noAuthGuardNow == IF ~isAuthenticated THEN Allow ELSE Deny("/dashboard", NoParam)
noAuthGuardPolled == IF ~isAuthenticated THEN Allow ELSE Deny("/dashboard", NoParam)

\* if (!authService.isLoading()) inside the setInterval callback.
PollReadyMut == TRUE
PollReady == ~isLoading

Poll(guard, url) == [guard |-> guard, url |-> url]

\* authGuard(route, state) is called with state.url = url.
authGuard(url) ==
  /\ IF isLoading
     THEN /\ Cardinality(polls) < MaxPolls
          /\ polls' = polls \cup {Poll("authGuard", url)}
          /\ out' = NoOut
     ELSE /\ polls' = polls
          /\ out' = Decided("authGuard", url, NoData, FALSE, authGuardNow(url))
  /\ UNCHANGED <<session, attached, provider, users, recs, ops>>

noAuthGuard ==
  /\ IF isLoading
     THEN /\ Cardinality(polls) < MaxPolls
          /\ polls' = polls \cup {Poll("noAuthGuard", "/login")}
          /\ out' = NoOut
     ELSE /\ polls' = polls
          /\ out' = Decided("noAuthGuard", "/login", NoData, FALSE, noAuthGuardNow)
  /\ UNCHANGED <<session, attached, provider, users, recs, ops>>

\* One firing of a suspended guard's setInterval callback (every 50 ms).
checkAuthMut(p) ==
  /\ p \in polls
  /\ polls' = polls \ {p}
  /\ loading' = FALSE
  /\ out' = Decided(p.guard, p.url, NoData, TRUE,
                    IF p.guard = "authGuard" THEN authGuardPolled(p.url)
                    ELSE noAuthGuardPolled)
  /\ UNCHANGED <<currentUser, firebaseUser, authError, attached, provider, users, recs, ops>>
checkAuth(p) ==
  /\ p \in polls
  /\ IF PollReady
     THEN /\ polls' = polls \ {p}
          /\ out' = Decided(p.guard, p.url, NoData, TRUE,
                            IF p.guard = "authGuard" THEN authGuardPolled(p.url)
                            ELSE noAuthGuardPolled)
     ELSE /\ polls' = polls
          /\ out' = NoOut
  /\ UNCHANGED <<session, attached, provider, users, recs, ops>>

\* roleGuard(route): the decision for route.data = data.
roleGuardDecision(data) ==
  IF ~isAuthenticated THEN Deny("/login", NoParam)
  ELSE LET requiredRoles == OrEmpty(data.roles)
           requireAll == OrFalse(data.requireAll)
       IN  IF Len(requiredRoles) = 0 THEN Allow
           ELSE IF (IF requireAll THEN hasAllRoles(requiredRoles)
                    ELSE hasAnyRole(requiredRoles))
                THEN Allow
                ELSE Deny("/unauthorized", NoParam)

\* permissionGuard(route): the decision for route.data = data.
permissionGuardDecision(data) ==
  IF ~isAuthenticated THEN Deny("/login", NoParam)
  ELSE LET requiredPermissions == OrEmpty(data.permissions)
           requireAll == OrFalse(data.requireAll)
       IN  IF Len(requiredPermissions) = 0 THEN Allow
           ELSE IF (IF requireAll
                    THEN \A k \in 1..Len(requiredPermissions) :
                           hasPermission(requiredPermissions[k])
                    ELSE hasAnyPermission(requiredPermissions))
                THEN Allow
                ELSE Deny("/unauthorized", NoParam)

roleGuard(data) ==
  /\ out' = Decided("roleGuard", NoParam, data, FALSE, roleGuardDecision(data))
  /\ UNCHANGED <<session, attached, provider, users, recs, ops, polls>>

permissionGuard(data) ==
  /\ out' = Decided("permissionGuard", NoParam, data, FALSE, permissionGuardDecision(data))
  /\ UNCHANGED <<session, attached, provider, users, recs, ops, polls>>

\* requireRoles(...roles)(): the decision of the guard closed over roles.
requireRolesDecisionMut(roles) ==
  IF ~isAuthenticated THEN Deny("/login", NoParam)
  ELSE IF hasAllRoles(roles) THEN Allow
  ELSE Deny("/unauthorized", NoParam)
requireRolesDecision(roles) ==
  IF ~isAuthenticated THEN Deny("/login", NoParam)
  ELSE IF hasAnyRole(roles) THEN Allow
  ELSE Deny("/unauthorized", NoParam)

\* requirePermissions(...permissions)(): the same over permissions.
requirePermissionsDecision(permissions) ==
  IF ~isAuthenticated THEN Deny("/login", NoParam)
  ELSE IF hasAnyPermission(permissions) THEN Allow
  ELSE Deny("/unauthorized", NoParam)

\* The lists the factories are closed over; requireRoles() is the empty list.
FactoryRoleLists == RoleLists \ {NoList}
FactoryPermLists == PermLists \ {NoList}

requireRoles(roles) ==
  /\ out' = Decided("requireRoles", NoParam, roles, FALSE, requireRolesDecision(roles))
  /\ UNCHANGED <<session, attached, provider, users, recs, ops, polls>>

requirePermissions(permissions) ==
  /\ out' = Decided("requirePermissions", NoParam, permissions, FALSE,
                    requirePermissionsDecision(permissions))
  /\ UNCHANGED <<session, attached, provider, users, recs, ops, polls>>

\* segments.map(s => s.path).join('/')
RECURSIVE JoinPath(_)
JoinPath(segments) ==
  IF segments = <<>> THEN ""
  ELSE IF Len(segments) = 1 THEN segments[1]
  ELSE segments[1] \o "/" \o JoinPath(Tail(segments))

\* The URL segments of the routes that are matched.
Segments == {<<"dashboard">>, <<"admin", "users">>}

\* authMatchGuard(route, segments): decides at once, whatever isLoading() is.
authMatchGuardDecision(segments) ==
  IF isAuthenticated THEN Allow ELSE Deny("/login", "/" \o JoinPath(segments))

authMatchGuard(segments) ==
  /\ out' = Decided("authMatchGuard", "/" \o JoinPath(segments), NoData, FALSE,
                    authMatchGuardDecision(segments))
  /\ UNCHANGED <<session, attached, provider, users, recs, ops, polls>>

\* One navigation to the path of segments submitted to both authMatchGuard and
\* authGuard in the same state: authMatchGuard answers at once, authGuard
\* answers at once or suspends; `match` keeps authMatchGuard's answer next to
\* the suspended authGuard.
Matched(url, polled, match, result) ==
  [type |-> "matched", url |-> url, polled |-> polled, match |-> match,
   result |-> result]
PollMatched(url, match) == [guard |-> "authGuard", url |-> url, match |-> match]

navigate(segments) ==
  LET url == "/" \o JoinPath(segments)
      match == authMatchGuardDecision(segments)
  IN  /\ IF isLoading
         THEN /\ Cardinality(polls) < MaxPolls
              /\ polls' = polls \cup {PollMatched(url, match)}
              /\ out' = NoOut
         ELSE /\ polls' = polls
              /\ out' = Matched(url, FALSE, match, authGuardNow(url))
      /\ UNCHANGED <<session, attached, provider, users, recs, ops>>

\* The interval callback of the authGuard suspended by navigate.
checkAuthMatched(p) ==
  /\ p \in polls
  /\ "match" \in DOMAIN p
  /\ IF PollReady
     THEN /\ polls' = polls \ {p}
          /\ out' = Matched(p.url, TRUE, p.match, authGuardPolled(p.url))
     ELSE /\ polls' = polls
          /\ out' = NoOut
  /\ UNCHANGED <<session, attached, provider, users, recs, ops>>

(***************************************************************************)
(* Specifications.                                                         *)
(***************************************************************************)
AuthStep(i) ==
  \/ SignIn(i)
  \/ SignInFails(i)
  \/ handleAuthSuccessFetch(i)
  \/ createUserProfileWrite(i)
  \/ handleAuthSuccessUpdate(i)
  \/ StoreFails(i)
  \/ AuthFinish(i)

RegisterStep(i) ==
  \/ SignUp(i)
  \/ SignUpFails(i)
  \/ UpdateProfile(i)
  \/ SendVerification(i)
  \/ RegisterStepFails(i)

LogoutStep(i) ==
  \/ SignOut(i)
  \/ logoutTap(i)
  \/ logoutCatch(i)

UpdateStep(i) ==
  \/ updateDocWrite(i)
  \/ updateDocFails(i)
  \/ updatePatch(i)

\* The session state machine: the listener, login, register and logout.
Next ==
  \/ Listener
  \/ \E uid \in Uids : login(uid)
  \/ \E uid \in Uids : register(uid, RegName)
  \/ logout
  \/ \E i \in 1..Len(ops) : AuthStep(i) \/ RegisterStep(i) \/ LogoutStep(i)

Spec == Init /\ [][Next]_vars

\* The session as the waiting guards see it: the listener and login, with
\* authGuard / noAuthGuard called at any moment and polling while loading.
NextAuthGuard ==
  \/ Listener
  \/ \E uid \in Uids : login(uid)
  \/ \E i \in 1..Len(ops) : AuthStep(i)
  \/ \E url \in Urls : authGuard(url)
  \/ noAuthGuard
  \/ \E p \in polls : checkAuth(p)

SpecAuthGuard == Init /\ [][NextAuthGuard]_vars

\* The persisted identity, whose roles an administrator changes and who logs
\* out, with roleGuard called at any moment with any route data.
NextRoleGuard ==
  \/ Listener
  \/ logout
  \/ \E roles \in RoleInputs : updateUserRoles("u1", roles)
  \/ \E i \in 1..Len(ops) : LogoutStep(i) \/ UpdateStep(i)
  \/ \E data \in RoleDatas : roleGuard(data)

SpecRoleGuard == Init /\ [][NextRoleGuard]_vars

\* The same for permissions and permissionGuard.
NextPermissionGuard ==
  \/ Listener
  \/ logout
  \/ \E permissions \in PermInputs : updateUserPermissions("u1", permissions)
  \/ \E i \in 1..Len(ops) : LogoutStep(i) \/ UpdateStep(i)
  \/ \E data \in PermDatas : permissionGuard(data)

SpecPermissionGuard == Init /\ [][NextPermissionGuard]_vars

\* The persisted identity, its roles and permissions changed by an
\* administrator, with the guards made by requireRoles / requirePermissions
\* called at any moment.
NextFactoryGuard ==
  \/ Listener
  \/ logout
  \/ \E roles \in RoleInputs : updateUserRoles("u1", roles)
  \/ \E permissions \in PermInputs : updateUserPermissions("u1", permissions)
  \/ \E i \in 1..Len(ops) : LogoutStep(i) \/ UpdateStep(i)
  \/ \E roles \in FactoryRoleLists : requireRoles(roles)
  \/ \E permissions \in FactoryPermLists : requirePermissions(permissions)

SpecFactoryGuard == Init /\ [][NextFactoryGuard]_vars

\* A navigation checked by authMatchGuard and authGuard together, while the
\* listener reconciles and a user logs in.
NextMatchGuard ==
  \/ Listener
  \/ \E uid \in Uids : login(uid)
  \/ \E i \in 1..Len(ops) : AuthStep(i)
  \/ \E segments \in Segments : navigate(segments)
  \/ \E p \in polls : checkAuthMatched(p)

SpecMatchGuard == Init /\ [][NextMatchGuard]_vars

\* The route data and factory arguments of app.routes.ts.
RouteRoleDatas ==
  {RouteData(<<"admin">>, NoList, "absent"),
   RouteData(<<"admin", "moderator">>, NoList, "absent")}
RoutePermDatas == {RouteData(NoList, <<"write">>, "absent")}

\* Any guard evaluated at any moment.
GuardCall ==
  \/ \E url \in Urls : authGuard(url)
  \/ noAuthGuard
  \/ \E p \in polls : checkAuth(p)
  \/ \E segments \in Segments : authMatchGuard(segments)
  \/ \E data \in RouteRoleDatas : roleGuard(data)
  \/ \E data \in RoutePermDatas : permissionGuard(data)
  \/ requireRoles(<<"admin">>)
  \/ requirePermissions(<<"write">>)

\* Every guard, called while the listener reconciles and users log in.
NextGuards ==
  \/ Listener
  \/ \E uid \in Uids : login(uid)
  \/ \E i \in 1..Len(ops) : AuthStep(i)
  \/ GuardCall

SpecGuards == Init /\ [][NextGuards]_vars

\* A new user who registers, signs in (with a password or with Google) and asks
\* for a password reset, next to the listener reconciling the persisted
\* identity and the new one.
NextSignIn ==
  \/ Listener
  \/ register("u2", RegName)
  \/ login("u2")
  \/ loginWithGoogle("u2")
  \/ resetPassword("u2")
  \/ \E i \in 1..Len(ops) :
       RegisterStep(i) \/ AuthStep(i) \/ resetPasswordTap(i) \/ MailFails(i)

SpecSignIn == Init /\ [][NextSignIn]_vars

\* The arrays an administrator may pass to updateUserRoles and
\* updateUserPermissions: any UserRole[] / string[], the empty one included.
RoleUpdates == RoleInputs \cup {{}}
PermUpdates == PermInputs \cup {{}}

\* An administrator changing the roles and permissions of the persisted user,
\* who is being reconciled by the listener and logs in.
NextAdmin ==
  \/ Listener
  \/ login("u1")
  \/ \E roles \in RoleUpdates : updateUserRoles("u1", roles)
  \/ \E permissions \in PermUpdates : updateUserPermissions("u1", permissions)
  \/ \E i \in 1..Len(ops) : AuthStep(i) \/ UpdateStep(i)

SpecAdmin == Init /\ [][NextAdmin]_vars

\* The persisted identity, who may log out, while an administrator changes
\* its roles and permissions.
NextUpdates ==
  \/ Listener
  \/ logout
  \/ \E roles \in RoleInputs : updateUserRoles("u1", roles)
  \/ \E permissions \in PermInputs : updateUserPermissions("u1", permissions)
  \/ \E i \in 1..Len(ops) : LogoutStep(i) \/ UpdateStep(i)

SpecUpdates == Init /\ [][NextUpdates]_vars

\* The persisted identity, who may log out, asking for the verification email
\* again at any moment.
NextResend ==
  \/ Listener
  \/ logout
  \/ resendVerificationEmail
  \/ \E i \in 1..Len(ops) : LogoutStep(i) \/ resendDone(i) \/ MailFails(i)

SpecResend == Init /\ [][NextResend]_vars

\* First logins, each creating the record it does not find, and reloads of
\* the application, each followed by a fresh reconciliation.
NextRestart ==
  \/ Listener
  \/ \E uid \in Uids : loginWithGoogle(uid)
  \/ \E i \in 1..Len(ops) : AuthStep(i)
  \/ restart

SpecRestart == Init /\ [][NextRestart]_vars

\* The persisted identity logging in and out while the service may be
\* destroyed at any moment, also more than once.
NextDestroy ==
  \/ Listener
  \/ login("u1")
  \/ logout
  \/ \E i \in 1..Len(ops) : AuthStep(i) \/ LogoutStep(i)
  \/ ngOnDestroy

SpecDestroy == Init /\ [][NextDestroy]_vars

\* Every operation of the service, called one after the other (the next one
\* once the previous has settled) next to the listener: the persisted
\* identity signs in, asks for mails, logs out and has its roles and
\* permissions written, and a new user registers.
ServiceCall ==
  \/ login("u1")
  \/ loginWithGoogle("u1")
  \/ register("u2", RegName)
  \/ resetPassword("u1")
  \/ logout
  \/ resendVerificationEmail
  \/ updateUserRoles("u1", DefaultRoles)
  \/ updateUserPermissions("u1", DefaultPermissions)

NextService ==
  \/ Listener
  \/ (ops = <<>> /\ ServiceCall)
  \/ \E i \in 1..Len(ops) :
       \/ AuthStep(i) \/ RegisterStep(i) \/ LogoutStep(i) \/ UpdateStep(i)
       \/ resetPasswordTap(i) \/ resendDone(i) \/ MailFails(i)

SpecService == Init /\ [][NextService]_vars

\* Logins whose calls to the provider and to the store are rejected with
\* errors of every kind.
NextClassify ==
  \/ Listener
  \/ \E uid \in Uids : login(uid)
  \/ \E i \in 1..Len(ops) : AuthStep(i) \/ OpRejects(i)

SpecClassify == Init /\ [][NextClassify]_vars

\* The same with what the scheduling guarantees: the interval callback of a
\* suspended guard keeps firing every 50 ms (and is taken not to miss every
\* moment at which loading is false), the provider delivers its callbacks, and
\* the listener continues once its awaited promise is resolved.  That a
\* request to the provider or to the store ever resolves is not guaranteed.
FairAuthGuard ==
  /\ SF_vars(\E p \in polls : checkAuth(p))
  /\ WF_vars(ListenerCall)
  /\ WF_vars(\E i \in 1..Len(recs) : ListenerAdopt(i))

SpecAuthGuardFair == SpecAuthGuard /\ FairAuthGuard

(***************************************************************************)
(* Claims.                                                                 *)
(***************************************************************************)
OpSettled(kinds) == out.type = "op" /\ out.kind \in kinds
GuardDecided(guards) == out.type = "guard" /\ out.guard \in guards
Range(list) == {list[k] : k \in 1..Len(list)}

\* C1: in the state in which logout() settles, isAuthenticated() is false,
\* whether the provider's sign-out succeeded or threw.
C1_LogoutAlwaysClears == OpSettled({"logout"}) => ~isAuthenticated

\* C2: in the state in which login, loginWithGoogle or register delivers its
\* success result, isAuthenticated() is true, wherever the provider's
\* session-change callback falls relative to the operation's completion.
C2_SuccessIsAuthenticated ==
  (OpSettled({"login", "loginWithGoogle", "register"}) /\ out.ok) => isAuthenticated

\* C3: in the state in which login settles with a failure, the session is
\* Anonymous: isAuthenticated() is false and the profile is null.
C3_FailedLoginIsAnonymous ==
  (OpSettled({"login"}) /\ ~out.ok) => (~isAuthenticated /\ currentUser = Null)

\* C4: whenever isAuthenticated() is true, the profile's uid is the raw
\* identity's uid.
C4_ProfileMatchesIdentity == isAuthenticated => currentUser.uid = firebaseUser

\* C5: when no provider event is pending and no reconciliation or operation is
\* in flight, the profile is non-null exactly when the raw identity is.
Quiescent == events = <<>> /\ recs = <<>> /\ ops = <<>>
C5_ProfileIffIdentity == Quiescent => (currentUser # Null <=> firebaseUser # NoUid)

\* C6: a decision of authGuard, taken in a settled session (loading false), is
\* Allow exactly when isAuthenticated() is true, and is otherwise the redirect
\* to '/login' with returnUrl equal to the requested URL.
C6_AuthGuardDecision ==
  (GuardDecided({"authGuard"}) /\ ~loading) =>
     /\ out.result.allow <=> isAuthenticated
     /\ ~out.result.allow => (out.result.path = "/login" /\ out.result.returnUrl = out.url)
     /\ out.result.allow => out.result = Allow
C6_Witness ==
  /\ GuardDecided({"authGuard"})
  /\ ~out.polled
  /\ out.url = "/admin"
  /\ out.result = Deny("/login", "/admin")

\* C7: authGuard and noAuthGuard never decide in a state in which loading is
\* true; a guard that was suspended decides at a poll that sees loading false,
\* and its decision is the allow/deny rule on the state seen at that poll.
C7_DecisionOnlyWhenSettled ==
  GuardDecided({"authGuard", "noAuthGuard"}) =>
     /\ ~loading
     /\ out.polled =>
          out.result = IF out.guard = "authGuard"
                       THEN (IF isAuthenticated THEN Allow ELSE Deny("/login", out.url))
                       ELSE (IF isAuthenticated THEN Deny("/dashboard", NoParam) ELSE Allow)
C7_Witness ==
  /\ GuardDecided({"noAuthGuard"})
  /\ out.polled
  /\ out.result = Deny("/dashboard", NoParam)

\* C8: a decision of noAuthGuard, taken in a settled session, is Allow exactly
\* when isAuthenticated() is false, and is otherwise the redirect to
\* '/dashboard' without query parameters.
C8_NoAuthGuardDecision ==
  (GuardDecided({"noAuthGuard"}) /\ ~loading) =>
     /\ out.result.allow <=> ~isAuthenticated
     /\ ~out.result.allow => out.result = Deny("/dashboard", NoParam)
     /\ out.result.allow => out.result = Allow
C8_Witness ==
  /\ GuardDecided({"noAuthGuard"})
  /\ ~out.polled
  /\ out.result = Deny("/dashboard", NoParam)

\* C9: roleGuard denies to '/login' when not authenticated; otherwise allows
\* when the required role list is absent or empty; otherwise allows exactly
\* when every required role is held (requireAll) or at least one is (default),
\* and else denies to '/unauthorized'.
RoleGuardTable(data) ==
  IF ~isAuthenticated THEN Deny("/login", NoParam)
  ELSE IF data.roles \in {NoList, <<>>} THEN Allow
  ELSE IF data.requireAll = "true"
       THEN (IF Range(data.roles) \subseteq userRoles THEN Allow
             ELSE Deny("/unauthorized", NoParam))
       ELSE (IF Range(data.roles) \cap userRoles # {} THEN Allow
             ELSE Deny("/unauthorized", NoParam))
C9_RoleGuardDecision ==
  GuardDecided({"roleGuard"}) => out.result = RoleGuardTable(out.data)
C9_Witness ==
  /\ GuardDecided({"roleGuard"})
  /\ isAuthenticated
  /\ userRoles = {"moderator"}
  /\ out.data = RouteData(<<"admin">>, NoList, "false")
  /\ out.result = Deny("/unauthorized", NoParam)

\* C10: permissionGuard has the same decision table on permissions: '/login'
\* when not authenticated; Allow when the required permission list is absent or
\* empty; otherwise Allow exactly when all (requireAll) or any of the required
\* permissions are held, else '/unauthorized'.
PermissionGuardTable(data) ==
  IF ~isAuthenticated THEN Deny("/login", NoParam)
  ELSE IF data.permissions \in {NoList, <<>>} THEN Allow
  ELSE IF data.requireAll = "true"
       THEN (IF Range(data.permissions) \subseteq userPermissions THEN Allow
             ELSE Deny("/unauthorized", NoParam))
       ELSE (IF Range(data.permissions) \cap userPermissions # {} THEN Allow
             ELSE Deny("/unauthorized", NoParam))
C10_PermissionGuardDecision ==
  GuardDecided({"permissionGuard"}) => out.result = PermissionGuardTable(out.data)
C10_Witness ==
  /\ GuardDecided({"permissionGuard"})
  /\ isAuthenticated
  /\ userPermissions = {"read"}
  /\ out.data = RouteData(NoList, <<"read", "write">>, "true")
  /\ out.result = Deny("/unauthorized", NoParam)

\* C11 (as stated): for every list L, the empty one included, the guard made by
\* requireRoles(L) decides as roleGuard does on {roles: L, requireAll: false},
\* and the guard made by requirePermissions(L) as permissionGuard does on
\* {permissions: L, requireAll: false}.
C11_FactoryAsGuardAnyList ==
  /\ GuardDecided({"requireRoles"}) =>
       out.result = roleGuardDecision(RouteData(out.data, NoList, "false"))
  /\ GuardDecided({"requirePermissions"}) =>
       out.result = permissionGuardDecision(RouteData(NoList, out.data, "false"))

\* C11 (amended): the two decisions agree for every non-empty list L; for the
\* empty list the factory guards send an authenticated session to
\* /unauthorized and an unauthenticated one to /login.
C11_FactoryAsGuard ==
  /\ (GuardDecided({"requireRoles"}) /\ out.data # <<>>) =>
       out.result = roleGuardDecision(RouteData(out.data, NoList, "false"))
  /\ (GuardDecided({"requirePermissions"}) /\ out.data # <<>>) =>
       out.result = permissionGuardDecision(RouteData(NoList, out.data, "false"))
  /\ (GuardDecided({"requireRoles", "requirePermissions"}) /\ out.data = <<>>) =>
       out.result = IF isAuthenticated THEN Deny("/unauthorized", NoParam)
                    ELSE Deny("/login", NoParam)

C11_Witness ==
  /\ GuardDecided({"requireRoles"})
  /\ out.data = <<"user", "admin">>
  /\ isAuthenticated
  /\ userRoles = {"user"}
  /\ out.result = Allow

\* C12: for the same requested path, authMatchGuard and authGuard invoked in
\* the same session state reach the same final decision, also when they are
\* invoked while the session is loading.
C12_MatchGuardAsAuthGuard ==
  out.type = "matched" => out.result = out.match

\* C13: a step of any guard (authGuard, noAuthGuard, authMatchGuard, roleGuard,
\* permissionGuard, the guards of requireRoles and requirePermissions, and the
\* polling callback of a suspended guard) leaves the profile, the raw identity,
\* loading, the last error and the profile store as they were.
C13_GuardsDoNotMutate ==
  [][GuardCall => UNCHANGED <<currentUser, firebaseUser, loading, authError, users>>]_vars

\* A guard that was suspended on its poll has decided, the session and the
\* stored record being those the listener left.
C13_Witness ==
  /\ GuardDecided({"authGuard", "noAuthGuard"})
  /\ out.polled
  /\ isAuthenticated
  /\ users[currentUser.uid].exists
  /\ ~loading

\* C14: in the state in which register delivers success, the profile store
\* holds the record of the new uid with roles {user} and permissions {read}
\* (records are keyed by uid, so there is exactly one), and the in-memory
\* profile is that user's with the same roles and permissions, however the
\* listener's own fetch and create-on-first-login interleave with register.
C14_RegisterDefaults ==
  (OpSettled({"register"}) /\ out.ok) =>
    /\ users[out.uid].exists
    /\ users[out.uid].roles = {"user"}
    /\ users[out.uid].permissions = {"read"}
    /\ currentUser # Null
    /\ currentUser.uid = out.uid
    /\ currentUser.roles = {"user"}
    /\ currentUser.permissions = {"read"}

\* register succeeds while the listener's reconciliation of the new identity,
\* which found no record and made its own, is still in flight.
C14_Witness ==
  /\ OpSettled({"register"})
  /\ out.ok
  /\ \E k \in 1..Len(recs) :
       /\ recs[k].uid = out.uid
       /\ recs[k].pc \in {"create", "adopt"}
       /\ recs[k].prof.displayName = DefaultDisplayName

\* C15: register does not fail at the verification email: an invocation that
\* is awaiting sendEmailVerification (the identity exists) never settles as a
\* failure in that step and never sets the last error there.
C15_VerificationFailureTolerated ==
  [][\A i \in 1..Len(ops) :
       (ops[i].kind = "register" /\ ops[i].pc = "verify" /\ ops' = RemoveAt(ops, i))
         => (out'.type = "op" /\ out'.ok /\ authError' = NoErr)]_vars

\* C16: when the provider rejects the sign-up of register, that step settles
\* register as a failure carrying the classified message (for an email already
\* in use: "An account with this email already exists."), which is also the
\* last error, and neither that step nor the call of register writes the
\* profile store or the in-memory profile.
C16_RejectedSignUp ==
  [][/\ \A i \in 1..Len(ops) :
          (ops[i].kind = "register" /\ ops[i].pc = "signup" /\ ops' = RemoveAt(ops, i))
            => /\ out' = Settled("register", ops[i].uid, FALSE,
                           IF ops[i].uid \in accounts
                           THEN "An account with this email already exists."
                           ELSE "Password should be at least 6 characters.")
               /\ authError' = out'.error
               /\ users' = users
               /\ currentUser' = currentUser
     /\ (Len(ops') = Len(ops) + 1 /\ ops'[Len(ops')].kind = "register")
          => (users' = users /\ currentUser' = currentUser)]_vars

\* register was rejected for an email already in use while another user's
\* profile was in memory, and that profile is still there.
C16_Witness ==
  /\ OpSettled({"register"})
  /\ ~out.ok
  /\ out.error = "An account with this email already exists."
  /\ currentUser # Null
  /\ users[out.uid].exists

\* C17: the call of login, loginWithGoogle, register or resetPassword sets
\* loading to true; the step in which such an invocation settles, as a success
\* or on any failure path, leaves loading false; and once every invocation has
\* settled and every event is reconciled, loading is false.
LoadingOps == {"login", "loginWithGoogle", "register", "resetPassword"}
C17_LoadingBracketsOperation ==
  [][/\ (Len(ops') = Len(ops) + 1 /\ ops'[Len(ops')].kind \in LoadingOps) => loading'
     /\ (out'.type = "op" /\ out'.kind \in LoadingOps /\ Len(ops') = Len(ops) - 1)
          => ~loading'
     /\ Quiescent' => ~loading']_vars

\* resetPassword has settled as a failure: the mail could not be sent.
C17_Witness ==
  /\ OpSettled({"resetPassword"})
  /\ ~out.ok
  /\ authError # NoErr
  /\ ~loading

\* C18: in every reachable state a non-null in-memory profile has a non-empty
\* set of roles and a non-empty set of permissions, whatever the stored record
\* holds and whatever updateUserRoles / updateUserPermissions were called with.
C18_RolesNeverEmpty ==
  currentUser # Null => (currentUser.roles # {} /\ currentUser.permissions # {})

\* C19: when the fetch or the creation of the profile throws while the
\* listener reconciles an event carrying an identity, the step that ends that
\* reconciliation leaves the profile null, isAuthenticated() false and loading
\* false: no profile from before the event stays visible.
C19_FailedReconciliationClears ==
  [][\A i \in 1..Len(recs) :
       (recs[i].pc \in {"fetch", "create"} /\ recs' = RemoveAt(recs, i))
         => (currentUser' = Null /\ ~isAuthenticated' /\ ~loading')]_vars

\* A reconciliation of an identity has failed and nothing is in flight: the
\* profile is null although the raw identity is there and its record exists.
C19_Witness ==
  /\ currentUser = Null
  /\ firebaseUser # NoUid
  /\ ~loading
  /\ recs = <<>>
  /\ events = <<>>
  /\ ops = <<>>
  /\ authError = NoErr
  /\ users[firebaseUser].exists

\* C20: in the state in which updateUserRoles(uid, roles), resp.
\* updateUserPermissions(uid, permissions), completes for the uid of the
\* in-memory profile, the in-memory roles (permissions) are those now in
\* storage; and a reconciliation or login of that uid that was in flight
\* during the update leaves no stale value behind: once nothing is in flight,
\* the in-memory roles and permissions are those of the stored record.
C20_UpdateReachesMemory ==
  /\ (OpSettled({"updateUserRoles"}) /\ out.ok /\ currentUser.uid = out.uid) =>
       currentUser.roles = users[out.uid].roles
  /\ (OpSettled({"updateUserPermissions"}) /\ out.ok /\ currentUser.uid = out.uid) =>
       currentUser.permissions = users[out.uid].permissions
  /\ (Quiescent /\ currentUser # Null /\ users[currentUser.uid].exists) =>
       /\ currentUser.roles = Coalesce(users[currentUser.uid].roles, DefaultRoles)
       /\ currentUser.permissions =
            Coalesce(users[currentUser.uid].permissions, DefaultPermissions)

\* C21: when the store write of updateUserRoles or updateUserPermissions
\* fails, the invocation ends in that step as a failure carrying the store's
\* error, nothing is written (there is no second attempt), and the in-memory
\* profile, the raw identity, loading and the last error stay as they were.
UpdateOps == {"updateUserRoles", "updateUserPermissions"}
C21_UpdateFailurePropagates ==
  [][\A i \in 1..Len(ops) :
       (ops[i].kind \in UpdateOps /\ ops[i].pc = "write" /\ ops' = RemoveAt(ops, i))
         => /\ out' = Settled(ops[i].kind, ops[i].uid, FALSE,
                              "Missing or insufficient permissions.")
            /\ UNCHANGED <<currentUser, firebaseUser, loading, authError, users>>]_vars

\* An update has failed while its user was the authenticated one.
C21_Witness ==
  /\ OpSettled(UpdateOps)
  /\ ~out.ok
  /\ isAuthenticated
  /\ currentUser.uid = out.uid
  /\ authError = NoErr

\* C22: updateUserRoles(uid, roles) called again with the roles the first call
\* stored changes nothing: its write leaves the stored record as it is, and its
\* patch leaves the in-memory profile, holding those roles since the first
\* call, as it is.
C22_UpdateRolesIdempotent ==
  [][\A i \in 1..Len(ops) :
       /\ (/\ ops[i].kind = "updateUserRoles" /\ ops[i].pc = "write"
           /\ ops' = ReplaceAt(ops, i, AtPc("patch", ops[i]))
           /\ users[ops[i].uid].exists
           /\ users[ops[i].uid].roles = ops[i].set)
            => users' = users
       /\ (/\ ops[i].kind = "updateUserRoles" /\ ops[i].pc = "patch"
           /\ ops' = RemoveAt(ops, i)
           /\ currentUser.uid = ops[i].uid
           /\ currentUser.roles = ops[i].set)
            => (currentUser' = currentUser /\ users' = users)]_vars

\* The second call is in flight, about to write: the record and the in-memory
\* profile already hold the roles the first call was given, which no record
\* starts with.
C22_Witness ==
  \E i \in 1..Len(ops) :
    /\ ops[i].kind = "updateUserRoles"
    /\ ops[i].pc = "write"
    /\ ops[i].set = {"moderator"}
    /\ users[ops[i].uid].exists
    /\ users[ops[i].uid].roles = {"moderator"}
    /\ currentUser.uid = ops[i].uid
    /\ currentUser.roles = {"moderator"}

\* C23: no step of resetPassword (its call, its success, its failure) changes
\* the profile, the raw identity or the profile store; isAuthenticated(), the
\* roles and the permissions are therefore what they were.
C23_ResetPasswordKeepsSession ==
  [][(\/ (Len(ops') = Len(ops) + 1 /\ ops'[Len(ops')].kind = "resetPassword")
      \/ \E i \in 1..Len(ops) :
           ops[i].kind = "resetPassword" /\ ops' = RemoveAt(ops, i))
       => /\ UNCHANGED <<currentUser, firebaseUser, users>>
          /\ isAuthenticated' = isAuthenticated
          /\ userRoles' = userRoles
          /\ userPermissions' = userPermissions]_vars

\* resetPassword has failed for another account while a user was
\* authenticated, and that user still is.
C23_Witness ==
  /\ OpSettled({"resetPassword"})
  /\ ~out.ok
  /\ isAuthenticated
  /\ currentUser.uid # out.uid

\* C24: resendVerificationEmail() called while no provider identity is
\* attached (firebaseUser is null) fails at once with the error "No user
\* logged in", starts no provider call, and leaves the profile, the raw
\* identity, loading and the last error as they were.
C24_ResendWithoutIdentity ==
  [][(resendVerificationEmail /\ firebaseUser = NoUid)
       => /\ out' = Settled("resendVerificationEmail", NoUid, FALSE, "No user logged in")
          /\ UNCHANGED <<currentUser, firebaseUser, loading, authError>>
          /\ UNCHANGED <<ops, provider, users>>]_vars

\* The call was refused in a settled, anonymous session.
C24_Witness ==
  /\ OpSettled({"resendVerificationEmail"})
  /\ ~out.ok
  /\ out.error = NoUserMessage
  /\ firebaseUser = NoUid
  /\ authUser = NoUid
  /\ ~loading
  /\ users["u1"].exists

\* C25: a login, loginWithGoogle, register or resetPassword that ends on an
\* exception of the provider or of the profile store settles as a failure,
\* never as a success, and the last error is then non-null and is the
\* classified message of that exception, the one the caller receives.
ExpectedMessage(op) ==
  CASE op.pc = "signin" /\ op.kind = "loginWithGoogle" ->
         "Sign-in popup was closed. Please try again."
    [] op.pc = "signin" /\ op.kind = "login" /\ op.uid \in accounts ->
         "Incorrect password. Please try again."
    [] op.pc = "signin" /\ op.kind = "login" /\ op.uid \notin accounts ->
         "No account found with this email address."
    [] op.pc = "signup" /\ op.uid \in accounts ->
         "An account with this email already exists."
    [] op.pc = "signup" /\ op.uid \notin accounts ->
         "Password should be at least 6 characters."
    [] op.pc \in {"fetch", "create", "update"} ->
         "Missing or insufficient permissions."
    [] OTHER -> "An error occurred. Please try again."
C25_FailureIsSurfaced ==
  [][\A i \in 1..Len(ops) :
       (ops[i].kind \in LoadingOps /\ ops' = RemoveAt(ops, i))
         => /\ out'.type = "op"
            /\ out'.kind = ops[i].kind
            /\ ops[i].pc \notin {"finish", "reset"} => ~out'.ok
            /\ ~out'.ok => /\ authError' # NoErr
                           /\ authError' = ExpectedMessage(ops[i])
                           /\ out'.error = authError']_vars

\* A register has failed on a network error, whose message is the generic one.
C25_Witness ==
  /\ OpSettled({"register"})
  /\ ~out.ok
  /\ authError = GenericMessage
  /\ out.error = GenericMessage

\* C26: the profile adopted when a first login creates the record and the
\* profile a fresh reconciliation of the same identity builds from the record
\* then found in storage are equal in uid, email, displayName, photoURL, roles
\* and permissions: whatever profile is in memory, or created and about to be
\* adopted, has in each of these fields the value a fetch of the stored record
\* gives.
RoundTripFields == {"uid", "email", "displayName", "photoURL", "roles", "permissions"}
SameProfile(p, q) == q # Null /\ \A f \in RoundTripFields : p[f] = q[f]
C26_ReconciliationRoundTrip ==
  /\ currentUser # Null =>
       SameProfile(currentUser, getUserProfile(currentUser.uid, currentUser.emailVerified))
  /\ \A k \in 1..Len(recs) :
       recs[k].pc = "adopt" =>
         SameProfile(recs[k].prof, getUserProfile(recs[k].uid, recs[k].prof.emailVerified))

\* The profile of a user whose record a first login created is in memory,
\* with the provider's email and photo, and nothing is in flight.
C26_Witness ==
  /\ currentUser # Null
  /\ currentUser.uid = "u2"
  /\ currentUser.photoURL = PhotoOf("u2")
  /\ currentUser.email = "u2@example.com"
  /\ users["u2"].exists
  /\ ops = <<>>
  /\ recs = <<>>
  /\ events = <<>>
  /\ ~loading

\* C27: while a login or a register is in flight (called, not yet settled),
\* loading stays true: the end of the reconciliation of the session-change
\* event of the identity being signed in (an event after the first: the
\* operation's own sign-in raised it) does not set loading to false.
C27_LoadingHeldByOperation ==
  [][\A i \in 1..Len(ops) : \A k \in 1..Len(recs) :
       (/\ ops[i].kind \in {"login", "register"}
        /\ ops' = ops
        /\ recs[k].uid = ops[i].uid
        /\ recs' = RemoveAt(recs, k)
        /\ loading)
         => loading']_vars

\* C28: loading is true in every state in which the first provider event has
\* not been fully reconciled.  The identity persisted at start signs in only
\* once, so its event is the first one: as long as that event is queued or its
\* reconciliation is in flight, loading is true, whatever operation was called
\* and has settled meanwhile.
PersistedUid == "u1"
FirstEventPending ==
  \/ \E k \in 1..Len(events) : events[k] = PersistedUid
  \/ \E k \in 1..Len(recs) : recs[k].uid = PersistedUid
C28_LoadingUntilFirstEvent == FirstEventPending => loading

\* C29: every authGuard or noAuthGuard suspended because the session was
\* loading eventually returns its decision, also when loading never becomes
\* false.
SuspendedGuards == {Poll("authGuard", url) : url \in Urls} \cup {Poll("noAuthGuard", "/login")}
C29_SuspendedGuardDecides ==
  \A p \in SuspendedGuards : (p \in polls) ~> (p \notin polls)

\* C30: once every provider event is reconciled and no operation is in flight,
\* the session is the one the last event determines (the last event carries
\* the identity the provider now holds): no profile after a sign-out event,
\* and no profile of another identity than the one last signed in.
C30_LastEventWins ==
  Quiescent =>
    /\ authUser = NoUid => currentUser = Null
    /\ currentUser # Null => currentUser.uid = authUser

\* C31: what one reconciliation computes, stage by stage.  An event without
\* identity leaves the profile and the raw identity null and loading false.
\* For an event with an identity the raw identity is set; a record found is
\* turned into the stored profile with emailVerified taken from the event; a
\* record not found leads to a new record written with roles {user} and
\* permissions {read}; the profile so fetched or created is what is adopted,
\* and loading is false afterwards.
C31_Reconciliation ==
  [][/\ (ListenerCall /\ Head(events) = NoUid)
          => (currentUser' = Null /\ firebaseUser' = NoUid /\ ~loading')
     /\ (ListenerCall /\ Head(events) # NoUid)
          => (firebaseUser' = Head(events) /\ recs'[Len(recs')].uid = Head(events))
     /\ \A k \in 1..Len(recs) :
          LET uid == recs[k].uid IN
          /\ (recs[k].pc = "fetch" /\ Len(recs') = Len(recs) /\ recs'[k] # recs[k])
               => IF users[uid].exists
                  THEN /\ recs'[k].pc = "adopt"
                       /\ recs'[k].prof.uid = uid
                       /\ recs'[k].prof.emailVerified = (uid = "u1")
                       /\ recs'[k].prof.email = users[uid].email
                       /\ recs'[k].prof.displayName = users[uid].displayName
                       /\ recs'[k].prof.photoURL = users[uid].photoURL
                       /\ recs'[k].prof.roles =
                            IF users[uid].roles = Absent THEN {"user"} ELSE users[uid].roles
                       /\ recs'[k].prof.permissions =
                            IF users[uid].permissions = Absent THEN {"read"}
                            ELSE users[uid].permissions
                       /\ users' = users
                  ELSE /\ recs'[k].pc = "create"
                       /\ users' = users
          /\ (recs[k].pc = "create" /\ Len(recs') = Len(recs) /\ recs'[k] # recs[k])
               => /\ users'[uid].exists
                  /\ users'[uid].roles = {"user"}
                  /\ users'[uid].permissions = {"read"}
                  /\ recs'[k].pc = "adopt"
                  /\ recs'[k].prof.uid = uid
                  /\ recs'[k].prof.roles = {"user"}
                  /\ recs'[k].prof.permissions = {"read"}
                  /\ recs'[k].prof.displayName = users'[uid].displayName
          /\ (recs[k].pc = "adopt" /\ recs' = RemoveAt(recs, k) /\ ~restart)
               => (currentUser' = recs[k].prof /\ firebaseUser' = firebaseUser /\ ~loading')]_vars

\* A reconciliation that found no record has created one and adopted it, and
\* nothing else is in flight.
C31_Witness ==
  /\ currentUser # Null
  /\ currentUser.uid = "u1"
  /\ currentUser.emailVerified
  /\ currentUser.displayName = DefaultDisplayName
  /\ users["u1"].exists
  /\ users["u1"].displayName = DefaultDisplayName
  /\ firebaseUser = "u1"
  /\ ~loading
  /\ Quiescent

\* C32: the call of every imperative operation (login, loginWithGoogle,
\* register, resetPassword, logout, resendVerificationEmail) leaves the last
\* error null: an error recorded before is cleared.
C32_ErrorClearedAtCall ==
  [][(\/ Len(ops') = Len(ops) + 1
      \/ (resendVerificationEmail /\ firebaseUser = NoUid))
       => authError' = NoErr]_vars

\* C33: ngOnDestroy detaches the listener and touches nothing else.  Once
\* detached the listener stays detached, no provider event is queued or
\* delivered and no new reconciliation starts, so the session signals change
\* only by an operation's own step or by a reconciliation that was already in
\* flight, which still adopts its profile and sets loading false; a second
\* ngOnDestroy changes nothing.
C33_DetachedListener ==
  [][/\ ngOnDestroy => (~attached' /\ recs' = recs /\ ops' = ops /\ session' = session)
     /\ ~attached =>
          /\ ~attached'
          /\ events' = <<>>
          /\ Len(recs') <= Len(recs)
          /\ session' # session =>
               (ops' # ops \/ \E k \in 1..Len(recs) : recs' = RemoveAt(recs, k))
          /\ ngOnDestroy => UNCHANGED <<session, attached, provider, users, recs, ops, polls>>
          /\ \A k \in 1..Len(recs) :
               (recs[k].pc = "adopt" /\ recs' = RemoveAt(recs, k))
                 => (currentUser' = recs[k].prof /\ ~loading')]_vars

\* The listener is detached, the provider session has ended since, and the
\* reconciliation of u1 that was in flight is about to adopt its profile.
C33_Witness ==
  /\ ~attached
  /\ authUser = NoUid
  /\ firebaseUser = "u1"
  /\ currentUser = Null
  /\ Len(recs) = 1
  /\ recs[1].pc = "adopt"

\* C34: loading goes from false to true only in the call of login,
\* loginWithGoogle, register or resetPassword, and each of these calls sets it
\* true.  No step of the listener, of logout, of resendVerificationEmail or of
\* updateUserRoles / updateUserPermissions turns it on.
C34_LoadingTurnedOnOnlyByCall ==
  [][/\ (~loading /\ loading') =>
          /\ Len(ops') = Len(ops) + 1
          /\ ops'[Len(ops')].kind \in LoadingOps
     /\ (Len(ops') = Len(ops) + 1 /\ ops'[Len(ops')].kind \in LoadingOps) => loading'
     /\ (Len(ops') = Len(ops) + 1 /\ ops'[Len(ops')].kind \notin LoadingOps)
          => loading' = loading]_vars

\* A profile is in memory, so loading has been false, and it is true again
\* while resetPassword is in flight.
C34_Witness ==
  /\ loading
  /\ currentUser # Null
  /\ Len(ops) = 1
  /\ ops[1].kind = "resetPassword"

\* C35: handleAuthError stores the message of a fixed table: each of the eight
\* known codes has its own message, different from the other seven and
\* whatever the error's raw message; any other error gives its raw message
\* or, when that is empty, the generic one.  The stored error is never
\* anything else.
KnownMessages ==
  [code \in KnownCodes |->
     CASE code = "auth/user-not-found" -> "No account found with this email address."
       [] code = "auth/wrong-password" -> "Incorrect password. Please try again."
       [] code = "auth/invalid-credential" -> "Invalid email or password. Please try again."
       [] code = "auth/email-already-in-use" -> "An account with this email already exists."
       [] code = "auth/weak-password" -> "Password should be at least 6 characters."
       [] code = "auth/invalid-email" -> "Please enter a valid email address."
       [] code = "auth/too-many-requests" -> "Too many failed attempts. Please try again later."
       [] code = "auth/popup-closed-by-user" -> "Sign-in popup was closed. Please try again."]
MessageOf(error) ==
  IF error.code \in KnownCodes THEN KnownMessages[error.code]
  ELSE IF error.message # "" THEN error.message
  ELSE "An error occurred. Please try again."
C35_FixedClassification ==
  [][/\ \A i \in 1..Len(ops) : \A error \in AnyErrors \cup StoreErrors \cup NetworkErrors :
          handleAuthError(i, error)
            => /\ authError' = MessageOf(error)
               /\ out'.error = MessageOf(error)
               /\ \A other \in AnyErrors :
                    (other.code # error.code /\ error.code \in KnownCodes)
                      => Classify(other) # authError'
               /\ Classify(Err(error.code, "")) = authError'
                    \/ error.code \notin KnownCodes
     /\ authError' \in {NoErr} \cup {MessageOf(error) :
                          error \in AnyErrors \cup StoreErrors \cup NetworkErrors}]_vars

\* A login has been rejected for too many attempts, which the provider's
\* ordinary answers to a wrong password or an unknown email never produce.
C35_Witness ==
  /\ OpSettled({"login"})
  /\ ~out.ok
  /\ authError = "Too many failed attempts. Please try again later."

\* C36: the role and permission queries are set membership on the profile in
\* memory and nothing more: hasRole(r) iff r is one of its roles (admin does
\* not bring moderator), hasAnyRole(rs) iff some element of rs is, so never
\* for the empty list, hasAllRoles(rs) iff every element is, so always for
\* the empty list; hasPermission and hasAnyPermission likewise; without a
\* profile no role or permission is held.
QueryRoles == {"admin", "moderator", "user"}
QueryPermissions == {"read", "write", "delete"}
QueryRoleLists ==
  {<<>>, <<"admin">>, <<"moderator">>, <<"admin", "moderator">>, <<"user", "admin">>}
QueryPermLists == {<<>>, <<"write">>, <<"delete">>, <<"read", "write">>}
C36_PlainMembership ==
  LET roles == IF currentUser = Null THEN {} ELSE currentUser.roles
      permissions == IF currentUser = Null THEN {} ELSE currentUser.permissions
  IN  /\ \A r \in QueryRoles : hasRole(r) <=> r \in roles
      /\ \A rs \in QueryRoleLists :
           /\ hasAnyRole(rs) <=> Range(rs) \cap roles # {}
           /\ hasAllRoles(rs) <=> Range(rs) \subseteq roles
      /\ ~hasAnyRole(<<>>)
      /\ hasAllRoles(<<>>)
      /\ \A p \in QueryPermissions : hasPermission(p) <=> p \in permissions
      /\ \A ps \in QueryPermLists :
           hasAnyPermission(ps) <=> Range(ps) \cap permissions # {}
      /\ ~hasAnyPermission(<<>>)

\* The profile in memory is an administrator's, who is not a moderator.
C36_Witness ==
  /\ currentUser # Null
  /\ currentUser.roles = {"admin", "user"}
  /\ hasAnyRole(<<"user", "admin">>)
  /\ ~hasAllRoles(<<"admin", "moderator">>)
  /\ currentUser.permissions = {"delete"}

\* C37: roleGuard, permissionGuard and the guards made by requireRoles and
\* requirePermissions do not deny because the first reconciliation is still
\* pending: called while loading is true for a user whose provider session
\* is live and whose stored record holds every required role (permission),
\* they allow the navigation.
RoleGates == {"roleGuard", "requireRoles"}
PermissionGates == {"permissionGuard", "requirePermissions"}
C37_NoDenialWhileLoading ==
  (/\ GuardDecided(RoleGates \cup PermissionGates)
   /\ loading
   /\ FirstEventPending
   /\ authUser = PersistedUid
   /\ users[PersistedUid].exists
   /\ LET required == CASE out.guard = "roleGuard" -> OrEmpty(out.data.roles)
                        [] out.guard = "permissionGuard" -> OrEmpty(out.data.permissions)
                        [] OTHER -> out.data
          held == IF out.guard \in RoleGates
                  THEN Coalesce(users[PersistedUid].roles, DefaultRoles)
                  ELSE Coalesce(users[PersistedUid].permissions, DefaultPermissions)
      IN  required # <<>> /\ Range(required) \subseteq held)
    => out.result = Allow

\* C38: a record that exists in storage stays, with its roles and permissions
\* as stored, through every step that is not the write of updateUserRoles or
\* updateUserPermissions: no login, register, logout or reconciliation
\* deletes it, writes it anew or changes its roles or permissions.
C38_RecordKeptByOthers ==
  [][\A u \in Uids :
       (users[u].exists /\ ~(\E i \in 1..Len(ops) : updateDocWrite(i)))
         => /\ users'[u].exists
            /\ users'[u].roles = users[u].roles
            /\ users'[u].permissions = users[u].permissions]_vars

\* C39: when register(email, password, displayName) has delivered its success
\* and no reconciliation or operation is in flight any more, the stored
\* record and the profile in memory both carry that displayName.
C39_RegisteredNameKept ==
  (OpSettled({"register"}) /\ out.ok /\ Quiescent)
    => /\ users[out.uid].exists
       /\ users[out.uid].displayName = RegName
       /\ currentUser # Null
       /\ currentUser.displayName = RegName

====
